---------------------------- MODULE Spec2Model ----------------------------
(***************************************************************************)
(* TaskScheduler of src/utils/scheduler.py as a state machine.             *)
(*                                                                         *)
(* One action is the code a coroutine runs between two suspension points   *)
(* of the asyncio event loop.  The clock `now` counts seconds.  A created  *)
(* asyncio task (create_task) is a process of its own whose first step     *)
(* runs later; the registry lock is the asyncio.Lock with its FIFO queue.  *)
(* The state holds the live objects only: a ScheduledTask that neither the *)
(* registry nor a coroutine refers to, and a coroutine that has ended, are *)
(* dropped and their slots are used again.                                 *)
(***************************************************************************)
EXTENDS Integers, Sequences, FiniteSets, TLC

(* ------------------------------ bounds -------------------------------- *)
MaxInst     == 2      \* ScheduledTask objects alive at once
MaxExecs    == 2      \* _execute_task coroutines alive at once
MaxLoops    == 2      \* _run_scheduler coroutines alive at once
MaxTime     == 2      \* the clock stops advancing past this second
MaxCalls    == 5      \* API calls in one behaviour, one task name in use
MaxCallsTwo == 4      \* API calls in one behaviour, two task names in use
MaxCallsLive == 4     \* API calls in one behaviour when time never stops

(* ------------------------- program constants -------------------------- *)
DefaultMaxErrors == 3         \* ScheduledTask.max_errors
WaitTimeout      == 30        \* _wait_for_task(timeout=30)
TickPeriod       == 1         \* asyncio.sleep(1) of the poll loop
FallbackInterval == 3600      \* default_intervals.get(name, 3600)

Names    == {"health_check", "x"}             \* task names the callers use
OneName  == {"x"}
NoName   == "-"
Callers  == {1}                               \* coroutines calling the API
Funcs    == {"async", "sync"}                 \* iscoroutinefunction(func) or not
Intervals == {1}                              \* interval arguments of the callers
KwargsChoices == {{}, {<<"max_errors", 2>>}}  \* **kwargs of add_task
Jump     == WaitTimeout + 1                   \* the long clock advance

None == <<>>                  \* Optional: <<>> is None, <<v>> is the value v
Some(v) == <<v>>

\* self.default_intervals, __init__
default_intervals ==
  [n \in {"knowledge_update", "metrics_cleanup", "system_backup",
          "health_check", "error_notification"} |->
     CASE n = "knowledge_update"   -> 3600
       [] n = "metrics_cleanup"    -> 86400
       [] n = "system_backup"      -> 43200
       [] n = "health_check"       -> 300
       [] n = "error_notification" -> 1800]

\* DefaultInterval that ignores the table and always gives the fallback
DefaultInterval_Fallback(n) == FallbackInterval

\* self.default_intervals.get(name, 3600)
DefaultInterval(n) ==
  IF n \in DOMAIN default_intervals THEN default_intervals[n] ELSE FallbackInterval

(* ------------------------------- state -------------------------------- *)
VARIABLES
  now,       \* datetime.utcnow(), in seconds
  running,   \* self.running
  tasks,     \* self.tasks: name -> slot of its ScheduledTask, 0 when absent
  insts,     \* the ScheduledTask objects, by slot
  execs,     \* the _execute_task coroutines, by slot
  loops,     \* the _run_scheduler coroutines: "none", "ready" or in "sleep"
  lock,      \* holder of self._lock, NoProc when free
  lockq,     \* coroutines queued on self._lock, FIFO
  callers,   \* the API callers and the call each is suspended in
  last,      \* the last API call, poll tick or disabling that completed
  names,     \* the task names the callers use in this behaviour
  left       \* how many more API calls the callers make in this behaviour

vars == <<now, running, tasks, insts, execs, loops, lock, lockq, callers, last,
         names, left>>

NoProc  == <<"none", 0>>
CProc(c) == <<"caller", c>>
EProc(e) == <<"exec", e>>

InstIds == 1..MaxInst
ExecIds == 1..MaxExecs
LoopIds == 1..MaxLoops

FreeInst ==
  [name |-> NoName, func |-> "none", interval |-> 0, last_run |-> None,
   is_running |-> FALSE, error_count |-> 0, max_errors |-> 0, kwargs |-> {}]

\* stops: the callers whose pending stop() found this execution in progress
FreeExec == [inst |-> 0, pc |-> "free", wstart |-> 0, target |-> 0, stops |-> {}]

IdleCaller ==
  [pc |-> "idle", name |-> NoName, func |-> "none", interval |-> None,
   kwargs |-> {}, wstart |-> 0, target |-> 0, pend |-> {}, tout |-> {}]

Event(op, n, res) == [op |-> op, name |-> n, res |-> res]

Registered == {n \in Names : tasks[n] # 0}
\* the pcs of an execution between its first statement and its finally block
InProgress == {"working", "rm_lock", "rm_wait"}

\* the objects something still refers to keep their slot, the others go
Collect(I, T, E, C) ==
  LET live == {T[n] : n \in Names} \cup {E[e].inst : e \in ExecIds}
              \cup {E[e].target : e \in ExecIds} \cup {C[c].target : c \in Callers}
              \cup UNION {C[c].pend \cup C[c].tout : c \in Callers}
  IN [i \in InstIds |-> IF i \in live THEN I[i] ELSE FreeInst]

InitWith(NS, B) ==
  /\ names = NS
  /\ left = B
  /\ now = 0
  /\ running = FALSE
  /\ tasks = [n \in Names |-> 0]
  /\ insts = [i \in InstIds |-> FreeInst]
  /\ execs = [e \in ExecIds |-> FreeExec]
  /\ loops = [l \in LoopIds |-> "none"]
  /\ lock = NoProc
  /\ lockq = <<>>
  /\ callers = [c \in Callers |-> IdleCaller]
  /\ last = Event("init", NoName, "ok")

\* one task name, every kind of work
Init == InitWith(OneName, MaxCalls)

\* two task names
InitTwo == InitWith(Names, MaxCallsTwo)

(* --------------------------- asyncio.Lock ------------------------------ *)
\* Lock.acquire returns at once only when the lock is free and nobody queues
LockFree == lock = NoProc /\ lockq = <<>>
\* Lock.release hands the lock to the first queued coroutine
ReleasedHolder == IF lockq = <<>> THEN NoProc ELSE Head(lockq)
ReleasedQueue  == IF lockq = <<>> THEN <<>> ELSE Tail(lockq)

(* ------------------------------- clock -------------------------------- *)
\* a _wait_for_task loop is polling
Waiting ==
  \/ \E c \in Callers : callers[c].pc \in {"rm_wait", "stop_wait"}
  \/ \E e \in ExecIds : execs[e].pc = "rm_wait"

\* d seconds pass, at least the tick period: the sleep(1) of every poll loop
\* expires.  An advance longer than the wait timeout is taken once, at MaxTime
\* and while a _wait_for_task is polling.  A coroutine made by create_task runs its
\* first step before any timer can fire, so no execution stays unstarted
\* across an advance.
Advance(d) ==
  /\ UNCHANGED <<names, left>>
  /\ d >= TickPeriod
  /\ IF d > WaitTimeout THEN now = MaxTime /\ Waiting ELSE now < MaxTime
  /\ \A e \in ExecIds : execs[e].pc # "created"
  /\ now' = now + d
  /\ loops' = [l \in LoopIds |-> IF loops[l] = "sleep" THEN "ready" ELSE loops[l]]
  /\ UNCHANGED <<running, tasks, insts, execs, lock, lockq, callers, last>>

(* ------------------------- _wait_for_task ----------------------------- *)
\* the while loop is left when is_running is seen false ...
WaitSeesIdle(I, i) == ~I[i].is_running
\* ... or by the break once more than `timeout` seconds have passed
WaitTimedOut(I, i, start) == I[i].is_running /\ now - start > WaitTimeout
WaitOver(I, i, start) == WaitSeesIdle(I, i) \/ WaitTimedOut(I, i, start)

(* --------------------------- start / stop ----------------------------- *)
FreeLoops == {l \in LoopIds : loops[l] = "none"}

\* Start without the `if self.running: return` test
Start_Always(c) ==
  /\ left > 0
  /\ left' = left - 1
  /\ UNCHANGED names
  /\ callers[c].pc = "idle"
  /\ FreeLoops # {}
  /\ running' = TRUE
  /\ loops' = [loops EXCEPT ![CHOOSE l \in FreeLoops :
                                \A m \in FreeLoops : l <= m] = "ready"]
  /\ last' = Event("start", NoName, "ok")
  /\ UNCHANGED <<now, tasks, insts, execs, lock, lockq, callers>>

\* start(): no-op when running, else set the flag and create the poll loop
Start(c) ==
  /\ left > 0
  /\ left' = left - 1
  /\ UNCHANGED names
  /\ callers[c].pc = "idle"
  /\ IF running
       THEN /\ last' = Event("start", NoName, "noop")
            /\ UNCHANGED <<running, loops>>
       ELSE /\ FreeLoops # {}
            /\ running' = TRUE
            /\ loops' = [loops EXCEPT ![CHOOSE l \in FreeLoops :
                                          \A m \in FreeLoops : l <= m] = "ready"]
            /\ last' = Event("start", NoName, "ok")
  /\ UNCHANGED <<now, tasks, insts, execs, lock, lockq, callers>>

\* the tasks stop() waits for: registered and is_running at the call
RunningRegistered == {tasks[n] : n \in {m \in Registered : insts[tasks[m]].is_running}}

\* stop(): clear the flag, then gather one _wait_for_task per running task;
\* with nothing to wait for the gather is already done and stop() returns
Stop(c) ==
  /\ left > 0
  /\ left' = left - 1
  /\ UNCHANGED names
  /\ callers[c].pc = "idle"
  /\ running' = FALSE
  /\ IF RunningRegistered = {}
       THEN /\ last' = Event("stop", NoName, "ok")
            /\ UNCHANGED <<callers, execs>>
       ELSE /\ callers' = [callers EXCEPT ![c] =
                 [IdleCaller EXCEPT !.pc = "stop_wait", !.wstart = now,
                                    !.pend = RunningRegistered]]
            /\ execs' = [e \in ExecIds |->
                 IF execs[e].pc \in InProgress /\ execs[e].inst \in RunningRegistered
                 THEN [execs[e] EXCEPT !.stops = @ \cup {c}] ELSE execs[e]]
            /\ UNCHANGED last
  /\ UNCHANGED <<now, tasks, insts, loops, lock, lockq>>

\* one of the gathered _wait_for_task coroutines leaves its loop
StopWait(c, i) ==
  /\ UNCHANGED <<names, left>>
  /\ callers[c].pc = "stop_wait"
  /\ i \in callers[c].pend
  /\ WaitOver(insts, i, callers[c].wstart)
  /\ callers' = [callers EXCEPT ![c].pend = @ \ {i},
                   ![c].tout = IF WaitTimedOut(insts, i, callers[c].wstart)
                               THEN @ \cup {i} ELSE @]
  /\ insts' = Collect(insts, tasks, execs, callers')
  /\ UNCHANGED <<now, running, tasks, execs, loops, lock, lockq, last>>

\* the gather is complete: stop() logs and returns
StopReturn(c) ==
  /\ UNCHANGED <<names, left>>
  /\ callers[c].pc = "stop_wait"
  /\ callers[c].pend = {}
  /\ callers' = [callers EXCEPT ![c] = IdleCaller]
  /\ execs' = [e \in ExecIds |-> [execs[e] EXCEPT !.stops = @ \ {c}]]
  /\ insts' = Collect(insts, tasks, execs, callers')
  /\ last' = Event("stop", NoName,
                   IF callers[c].tout = {} THEN "waited" ELSE "timeout")
  /\ UNCHANGED <<now, running, tasks, loops, lock, lockq>>

(* ----------------------------- poll loop ------------------------------ *)
\* Due without the `task.last_run is None` alternative
Due_NoNever(t, current_time) ==
  /\ ~t.is_running
  /\ t.last_run # None
  /\ current_time - t.last_run[1] >= t.interval

\* Due with the elapsed-time test written > instead of >=
Due_Strict(t, current_time) ==
  /\ ~t.is_running
  /\ \/ t.last_run = None
     \/ current_time - t.last_run[1] > t.interval

\* the due test of _run_scheduler for ScheduledTask t at current_time
Due(t, current_time) ==
  /\ ~t.is_running
  /\ \/ t.last_run = None
     \/ current_time - t.last_run[1] >= t.interval

DueInsts == {tasks[n] : n \in {m \in Registered : Due(insts[tasks[m]], now)}}

NewExec(i) == [FreeExec EXCEPT !.inst = i, !.pc = "created"]

FreeExecs(E) == {e \in ExecIds : E[e].pc = "free"}

RECURSIVE Launch(_, _)
\* asyncio.create_task(self._execute_task(task)) for every task of S
Launch(E, S) ==
  IF S = {} THEN E
  ELSE LET i == CHOOSE x \in S : \A y \in S : x <= y
           e == CHOOSE x \in FreeExecs(E) : \A y \in FreeExecs(E) : x <= y
       IN Launch([E EXCEPT ![e] = NewExec(i)], S \ {i})

\* a poll loop wakes up: `while self.running` fails and the coroutine ends
LoopExit(l) ==
  /\ UNCHANGED <<names, left>>
  /\ loops[l] = "ready"
  /\ ~running
  /\ loops' = [loops EXCEPT ![l] = "none"]
  /\ UNCHANGED <<now, running, tasks, insts, execs, lock, lockq, callers, last>>

\* a poll loop wakes up and runs one tick: launch every due task, sleep(1)
LoopTick(l) ==
  /\ UNCHANGED <<names, left>>
  /\ loops[l] = "ready"
  /\ running
  /\ Cardinality(FreeExecs(execs)) >= Cardinality(DueInsts)
  /\ execs' = Launch(execs, DueInsts)
  /\ loops' = [loops EXCEPT ![l] = "sleep"]
  /\ last' = Event("tick", NoName, "ok")
  /\ UNCHANGED <<now, running, tasks, insts, lock, lockq, callers>>

(* --------------------------- _execute_task ---------------------------- *)
\* what remove_task does under the lock, for the registry and objects I
RemoveDecision(I, n) ==
  IF tasks[n] = 0 THEN "notfound"
  ELSE IF I[tasks[n]].is_running THEN "wait" ELSE "delete"

\* ExecEnds without the finally block: is_running stays as it is
ExecEnds_NoFinally(e, I, T) ==
  LET E == [execs EXCEPT ![e] = FreeExec]
  IN /\ execs' = E
     /\ tasks' = T
     /\ insts' = Collect(I, T, E, callers)

\* the coroutine in slot e ends, after its finally block, objects I, registry T
ExecEnds(e, I, T) ==
  LET E == [execs EXCEPT ![e] = FreeExec]
  IN /\ execs' = E
     /\ tasks' = T
     /\ insts' = Collect([I EXCEPT ![execs[e].inst].is_running = FALSE], T, E, callers)

\* the outcome of the remove_task call that disables a task
Disabled(n, d) ==
  Event("disable", n, IF d = "notfound" THEN "ValueError: not found" ELSE "ok")

\* remove_task(task.name) called from the except block, once it holds the
\* lock, followed by the finally block when remove_task returns or raises
ExecRemove(e, I) ==
  LET i == execs[e].inst
      n == I[i].name
      d == RemoveDecision(I, n)
  IN IF d = "wait"
       THEN /\ execs' = [execs EXCEPT ![e].pc = "rm_wait", ![e].wstart = now,
                                      ![e].target = tasks[n]]
            /\ insts' = I
            /\ lock' = EProc(e)
            /\ UNCHANGED <<tasks, lockq, last>>
       ELSE /\ ExecEnds(e, I, IF d = "delete" THEN [tasks EXCEPT ![n] = 0] ELSE tasks)
            /\ lock' = ReleasedHolder
            /\ lockq' = ReleasedQueue
            /\ last' = Disabled(n, d)

\* ExecExcept with the threshold test written > instead of >=
ExecExcept_Late(e, I) ==
  LET i  == execs[e].inst
      I2 == [I EXCEPT ![i].error_count = @ + 1]
  IN IF I2[i].error_count > I2[i].max_errors
       THEN IF LockFree
              THEN ExecRemove(e, I2)
              ELSE /\ execs' = [execs EXCEPT ![e].pc = "rm_lock"]
                   /\ lockq' = Append(lockq, EProc(e))
                   /\ insts' = I2
                   /\ UNCHANGED <<tasks, lock, last>>
       ELSE /\ ExecEnds(e, I2, tasks)
            /\ UNCHANGED <<lock, lockq, last>>

\* the except block and what follows it, for the objects I
ExecExcept(e, I) ==
  LET i  == execs[e].inst
      I2 == [I EXCEPT ![i].error_count = @ + 1]
  IN IF I2[i].error_count >= I2[i].max_errors
       THEN IF LockFree
              THEN ExecRemove(e, I2)
              ELSE /\ execs' = [execs EXCEPT ![e].pc = "rm_lock"]
                   /\ lockq' = Append(lockq, EProc(e))
                   /\ insts' = I2
                   /\ UNCHANGED <<tasks, lock, last>>
       ELSE /\ ExecEnds(e, I2, tasks)
            /\ UNCHANGED <<lock, lockq, last>>

\* run_in_executor(None, func, *args, **kwargs) takes no keyword arguments:
\* a plain function with non-empty kwargs raises TypeError before it runs
CallRaisesAtOnce(t) == t.func = "sync" /\ t.kwargs # {}

\* first step of _execute_task: mark, stamp, call the work
ExecStart(e) ==
  /\ UNCHANGED <<names, left>>
  /\ execs[e].pc = "created"
  /\ LET i == execs[e].inst
         I == [insts EXCEPT ![i].is_running = TRUE, ![i].last_run = Some(now)]
     IN IF CallRaisesAtOnce(insts[i])
          THEN ExecExcept(e, I)
          ELSE /\ execs' = [execs EXCEPT ![e].pc = "working"]
               /\ insts' = I
               /\ UNCHANGED <<tasks, lock, lockq, last>>
  /\ UNCHANGED <<now, running, loops, callers>>

\* ExecSucceed that stamps last_run when the work completes
ExecSucceed_Stamp(e) ==
  /\ UNCHANGED <<names, left>>
  /\ execs[e].pc = "working"
  /\ ExecEnds(e, [insts EXCEPT ![execs[e].inst].error_count = 0,
                               ![execs[e].inst].last_run = Some(now)], tasks)
  /\ UNCHANGED <<now, running, loops, lock, lockq, callers, last>>

\* ExecSucceed without the assignment error_count = 0
ExecSucceed_NoReset(e) ==
  /\ UNCHANGED <<names, left>>
  /\ execs[e].pc = "working"
  /\ ExecEnds(e, insts, tasks)
  /\ UNCHANGED <<now, running, loops, lock, lockq, callers, last>>

\* the work returns: error_count = 0, then the finally block
ExecSucceed(e) ==
  /\ UNCHANGED <<names, left>>
  /\ execs[e].pc = "working"
  /\ ExecEnds(e, [insts EXCEPT ![execs[e].inst].error_count = 0], tasks)
  /\ UNCHANGED <<now, running, loops, lock, lockq, callers, last>>

\* ExecFail with the error escaping to the poll loops, which end
ExecFail_Propagates(e) ==
  /\ UNCHANGED <<names, left>>
  /\ execs[e].pc = "working"
  /\ ExecExcept(e, insts)
  /\ loops' = [l \in LoopIds |-> "none"]
  /\ UNCHANGED <<now, running, callers>>

\* the work raises
ExecFail(e) ==
  /\ UNCHANGED <<names, left>>
  /\ execs[e].pc = "working"
  /\ ExecExcept(e, insts)
  /\ UNCHANGED <<now, running, loops, callers>>

\* the queued remove_task of the except block is handed the lock
ExecLocked(e) ==
  /\ UNCHANGED <<names, left>>
  /\ execs[e].pc = "rm_lock"
  /\ lock = EProc(e)
  /\ ExecRemove(e, insts)
  /\ UNCHANGED <<now, running, loops, callers>>

\* the _wait_for_task inside that remove_task ends: del, release, finally
ExecWaitOver(e) ==
  /\ UNCHANGED <<names, left>>
  /\ execs[e].pc = "rm_wait"
  /\ WaitOver(insts, execs[e].target, execs[e].wstart)
  /\ ExecEnds(e, insts, [tasks EXCEPT ![insts[execs[e].inst].name] = 0])
  /\ lock' = ReleasedHolder
  /\ lockq' = ReleasedQueue
  /\ last' = Disabled(insts[execs[e].inst].name, "delete")
  /\ UNCHANGED <<now, running, loops, callers>>

(* ------------------------------ add_task ------------------------------ *)
\* the dataclass constructor with the defaults of its fields
ScheduledTask(n, f, iv, kw) ==
  [name |-> n, func |-> f, interval |-> iv, last_run |-> None,
   is_running |-> FALSE, error_count |-> 0, max_errors |-> DefaultMaxErrors,
   kwargs |-> kw]

FreeInsts   == {i \in InstIds : insts[i] = FreeInst}
PendingAdds == Cardinality({c \in Callers : callers[c].pc = "add_lock"})

\* AddBody without the membership test: a registered name is overwritten
AddBody_Overwrite(c, n, f, iv, kw) ==
  /\ LET i == IF tasks[n] # 0 THEN tasks[n]
              ELSE CHOOSE x \in FreeInsts : \A y \in FreeInsts : x <= y
     IN /\ insts' = [insts EXCEPT ![i] =
             ScheduledTask(n, f, IF iv = None THEN DefaultInterval(n) ELSE iv[1], kw)]
        /\ tasks' = [tasks EXCEPT ![n] = i]
        /\ last' = Event("add_task", n, "ok")
  /\ lock' = ReleasedHolder
  /\ lockq' = ReleasedQueue

\* the body of add_task under the lock; iv is None when interval is omitted
AddBody(c, n, f, iv, kw) ==
  /\ IF tasks[n] # 0
       THEN /\ last' = Event("add_task", n, "ValueError: already exists")
            /\ UNCHANGED <<tasks, insts>>
       ELSE LET i == CHOOSE x \in FreeInsts : \A y \in FreeInsts : x <= y
            IN /\ insts' = [insts EXCEPT ![i] =
                    ScheduledTask(n, f, IF iv = None THEN DefaultInterval(n) ELSE iv[1], kw)]
               /\ tasks' = [tasks EXCEPT ![n] = i]
               /\ last' = Event("add_task", n, "ok")
  /\ lock' = ReleasedHolder
  /\ lockq' = ReleasedQueue

AddTask(c, n, f, iv, kw) ==
  /\ left > 0
  /\ left' = left - 1
  /\ UNCHANGED names
  /\ callers[c].pc = "idle"
  /\ \/ Cardinality(FreeInsts) > PendingAdds
     \/ LockFree /\ tasks[n] # 0
  /\ IF LockFree
       THEN AddBody(c, n, f, iv, kw) /\ UNCHANGED callers
       ELSE /\ callers' = [callers EXCEPT ![c] =
                 [IdleCaller EXCEPT !.pc = "add_lock", !.name = n, !.func = f,
                                    !.interval = iv, !.kwargs = kw]]
            /\ lockq' = Append(lockq, CProc(c))
            /\ UNCHANGED <<tasks, insts, lock, last>>
  /\ UNCHANGED <<now, running, execs, loops>>

\* a queued add_task is handed the lock
AddLocked(c) ==
  /\ UNCHANGED <<names, left>>
  /\ callers[c].pc = "add_lock"
  /\ lock = CProc(c)
  /\ AddBody(c, callers[c].name, callers[c].func, callers[c].interval,
             callers[c].kwargs)
  /\ callers' = [callers EXCEPT ![c] = IdleCaller]
  /\ UNCHANGED <<now, running, execs, loops>>

(* ----------------------------- remove_task ---------------------------- *)
\* RemoveBody that deletes a running task without waiting for it
RemoveBody_NoWait(c, n) ==
  LET T == [tasks EXCEPT ![n] = 0]
      C == [callers EXCEPT ![c] = IdleCaller]
  IN /\ callers' = C
     /\ tasks' = T
     /\ insts' = Collect(insts, T, execs, C)
     /\ last' = Event("remove_task", n,
                      IF tasks[n] # 0 THEN "ok" ELSE "ValueError: not found")
     /\ lock' = ReleasedHolder
     /\ lockq' = ReleasedQueue

\* RemoveBody that returns quietly when the name is not registered
RemoveBody_NoCheck(c, n) ==
  LET d == RemoveDecision(insts, n)
      T == IF d = "delete" THEN [tasks EXCEPT ![n] = 0] ELSE tasks
      C == [callers EXCEPT ![c] = IdleCaller]
  IN IF d = "wait"
       THEN /\ callers' = [callers EXCEPT ![c] =
                 [IdleCaller EXCEPT !.pc = "rm_wait", !.name = n,
                                    !.target = tasks[n], !.wstart = now]]
            /\ lock' = CProc(c)
            /\ UNCHANGED <<tasks, insts, lockq, last>>
       ELSE /\ callers' = C
            /\ tasks' = T
            /\ insts' = Collect(insts, T, execs, C)
            /\ last' = Event("remove_task", n, "ok")
            /\ lock' = ReleasedHolder
            /\ lockq' = ReleasedQueue

\* the body of remove_task under the lock
RemoveBody(c, n) ==
  LET d == RemoveDecision(insts, n)
      T == IF d = "delete" THEN [tasks EXCEPT ![n] = 0] ELSE tasks
      C == [callers EXCEPT ![c] = IdleCaller]
  IN IF d = "wait"
       THEN /\ callers' = [callers EXCEPT ![c] =
                 [IdleCaller EXCEPT !.pc = "rm_wait", !.name = n,
                                    !.target = tasks[n], !.wstart = now]]
            /\ lock' = CProc(c)
            /\ UNCHANGED <<tasks, insts, lockq, last>>
       ELSE /\ callers' = C
            /\ tasks' = T
            /\ insts' = Collect(insts, T, execs, C)
            /\ last' = Event("remove_task", n,
                             IF d = "delete" THEN "ok" ELSE "ValueError: not found")
            /\ lock' = ReleasedHolder
            /\ lockq' = ReleasedQueue

RemoveTask(c, n) ==
  /\ left > 0
  /\ left' = left - 1
  /\ UNCHANGED names
  /\ callers[c].pc = "idle"
  /\ IF LockFree
       THEN RemoveBody(c, n)
       ELSE /\ callers' = [callers EXCEPT ![c] =
                 [IdleCaller EXCEPT !.pc = "rm_lock", !.name = n]]
            /\ lockq' = Append(lockq, CProc(c))
            /\ UNCHANGED <<tasks, insts, lock, last>>
  /\ UNCHANGED <<now, running, execs, loops>>

\* a queued remove_task is handed the lock
RemoveLocked(c) ==
  /\ UNCHANGED <<names, left>>
  /\ callers[c].pc = "rm_lock"
  /\ lock = CProc(c)
  /\ RemoveBody(c, callers[c].name)
  /\ UNCHANGED <<now, running, execs, loops>>

\* the _wait_for_task of remove_task ends: del self.tasks[name], release
RemoveWaitOver(c) ==
  /\ UNCHANGED <<names, left>>
  /\ callers[c].pc = "rm_wait"
  /\ WaitOver(insts, callers[c].target, callers[c].wstart)
  /\ LET T == [tasks EXCEPT ![callers[c].name] = 0]
         C == [callers EXCEPT ![c] = IdleCaller]
     IN /\ tasks' = T
        /\ callers' = C
        /\ insts' = Collect(insts, T, execs, C)
  /\ last' = Event("remove_task", callers[c].name, "ok")
  /\ lock' = ReleasedHolder
  /\ lockq' = ReleasedQueue
  /\ UNCHANGED <<now, running, execs, loops>>

(* --------------------------- update_interval -------------------------- *)
\* UpdateBody that also clears last_run, so that the task is due at once
UpdateBody_Restart(c, n, iv) ==
  /\ IF tasks[n] = 0
       THEN /\ last' = Event("update_interval", n, "ValueError: not found")
            /\ UNCHANGED insts
       ELSE /\ insts' = [insts EXCEPT ![tasks[n]].interval = iv,
                                       ![tasks[n]].last_run = None]
            /\ last' = Event("update_interval", n, "ok")
  /\ lock' = ReleasedHolder
  /\ lockq' = ReleasedQueue

\* the body of update_interval under the lock
UpdateBody(c, n, iv) ==
  /\ IF tasks[n] = 0
       THEN /\ last' = Event("update_interval", n, "ValueError: not found")
            /\ UNCHANGED insts
       ELSE /\ insts' = [insts EXCEPT ![tasks[n]].interval = iv]
            /\ last' = Event("update_interval", n, "ok")
  /\ lock' = ReleasedHolder
  /\ lockq' = ReleasedQueue

\* UpdateInterval without `async with self._lock`
UpdateInterval_NoLock(c, n, iv) ==
  /\ left > 0
  /\ left' = left - 1
  /\ UNCHANGED names
  /\ callers[c].pc = "idle"
  /\ IF tasks[n] = 0
       THEN /\ last' = Event("update_interval", n, "ValueError: not found")
            /\ UNCHANGED insts
       ELSE /\ insts' = [insts EXCEPT ![tasks[n]].interval = iv]
            /\ last' = Event("update_interval", n, "ok")
  /\ UNCHANGED <<now, running, tasks, execs, loops, lock, lockq, callers>>

\* update_interval(name, interval): the body runs at once when the lock is
\* free, else the call queues for it
UpdateInterval(c, n, iv) ==
  /\ left > 0
  /\ left' = left - 1
  /\ UNCHANGED names
  /\ callers[c].pc = "idle"
  /\ IF LockFree
       THEN UpdateBody(c, n, iv) /\ UNCHANGED callers
       ELSE /\ callers' = [callers EXCEPT ![c] =
                 [IdleCaller EXCEPT !.pc = "upd_lock", !.name = n,
                                    !.interval = Some(iv)]]
            /\ lockq' = Append(lockq, CProc(c))
            /\ UNCHANGED <<insts, lock, last>>
  /\ UNCHANGED <<now, running, tasks, execs, loops>>

\* a queued update_interval is handed the lock
UpdateLocked(c) ==
  /\ UNCHANGED <<names, left>>
  /\ callers[c].pc = "upd_lock"
  /\ lock = CProc(c)
  /\ UpdateBody(c, callers[c].name, callers[c].interval[1])
  /\ callers' = [callers EXCEPT ![c] = IdleCaller]
  /\ UNCHANGED <<now, running, tasks, execs, loops>>

(* ----------------------------- run_task_now --------------------------- *)
\* RunTaskNow without the is_running test
RunTaskNow_NoBusyCheck(c, n) ==
  /\ left > 0
  /\ left' = left - 1
  /\ UNCHANGED names
  /\ callers[c].pc = "idle"
  /\ IF tasks[n] = 0
       THEN /\ last' = Event("run_task_now", n, "ValueError: not found")
            /\ UNCHANGED insts
       ELSE /\ insts' = [insts EXCEPT ![tasks[n]].last_run = None]
            /\ last' = Event("run_task_now", n, "ok")
  /\ UNCHANGED <<now, running, tasks, execs, loops, lock, lockq, callers>>

\* run_task_now(name): no lock, no await
RunTaskNow(c, n) ==
  /\ left > 0
  /\ left' = left - 1
  /\ UNCHANGED names
  /\ callers[c].pc = "idle"
  /\ IF tasks[n] = 0
       THEN /\ last' = Event("run_task_now", n, "ValueError: not found")
            /\ UNCHANGED insts
       ELSE IF insts[tasks[n]].is_running
              THEN /\ last' = Event("run_task_now", n, "RuntimeError: already running")
                   /\ UNCHANGED insts
              ELSE /\ insts' = [insts EXCEPT ![tasks[n]].last_run = None]
                   /\ last' = Event("run_task_now", n, "ok")
  /\ UNCHANGED <<now, running, tasks, execs, loops, lock, lockq, callers>>

(* ------------------------------ get_status ---------------------------- *)
\* datetime.isoformat(): the text of a timestamp
IsoFormat(t) == <<"iso", t>>

\* StatusOf with next_run computed without the interval
StatusOf_NoInterval(t) ==
  [last_run    |-> IF t.last_run # None THEN Some(IsoFormat(t.last_run[1])) ELSE None,
   is_running  |-> t.is_running,
   error_count |-> t.error_count,
   interval    |-> t.interval,
   next_run    |-> IF t.last_run # None
                     THEN IsoFormat(t.last_run[1])
                     ELSE IsoFormat(now)]

\* the entry get_status() builds for ScheduledTask t
StatusOf(t) ==
  [last_run    |-> IF t.last_run # None THEN Some(IsoFormat(t.last_run[1])) ELSE None,
   is_running  |-> t.is_running,
   error_count |-> t.error_count,
   interval    |-> t.interval,
   next_run    |-> IF t.last_run # None
                     THEN IsoFormat(t.last_run[1] + t.interval)
                     ELSE IsoFormat(now)]

get_status == [n \in Registered |-> StatusOf(insts[tasks[n]])]

GetStatus(c) ==
  /\ left > 0
  /\ left' = left - 1
  /\ UNCHANGED names
  /\ callers[c].pc = "idle"
  /\ last' = Event("get_status", NoName, "ok")
  /\ UNCHANGED <<now, running, tasks, insts, execs, loops, lock, lockq, callers>>

(* ------------------------------- system ------------------------------- *)
Next ==
  \/ \E d \in {TickPeriod, Jump} : Advance(d)
  \/ \E c \in Callers : Start(c)
  \/ \E c \in Callers : Stop(c)
  \/ \E c \in Callers, i \in InstIds : StopWait(c, i)
  \/ \E c \in Callers : StopReturn(c)
  \/ \E c \in Callers, n \in names, f \in Funcs,
        iv \in {None} \cup {Some(v) : v \in Intervals}, kw \in KwargsChoices :
        AddTask(c, n, f, iv, kw)
  \/ \E c \in Callers : AddLocked(c)
  \/ \E c \in Callers, n \in names : RemoveTask(c, n)
  \/ \E c \in Callers : RemoveLocked(c)
  \/ \E c \in Callers : RemoveWaitOver(c)
  \/ \E c \in Callers, n \in names, iv \in Intervals : UpdateInterval(c, n, iv)
  \/ \E c \in Callers : UpdateLocked(c)
  \/ \E c \in Callers, n \in names : RunTaskNow(c, n)
  \/ \E c \in Callers : GetStatus(c)
  \/ \E l \in LoopIds : LoopExit(l)
  \/ \E l \in LoopIds : LoopTick(l)
  \/ \E e \in ExecIds : ExecStart(e)
  \/ \E e \in ExecIds : ExecSucceed(e)
  \/ \E e \in ExecIds : ExecFail(e)
  \/ \E e \in ExecIds : ExecLocked(e)
  \/ \E e \in ExecIds : ExecWaitOver(e)

Spec == Init /\ [][Next]_vars

SpecTwo == InitTwo /\ [][Next]_vars

\* a _wait_for_task loop is polling a task that is running and has not yet
\* timed out: only the passing of time can end it
TimeoutPending ==
  \/ \E c \in Callers :
       /\ callers[c].pc = "rm_wait"
       /\ ~WaitOver(insts, callers[c].target, callers[c].wstart)
  \/ \E c \in Callers :
       /\ callers[c].pc = "stop_wait"
       /\ \E i \in callers[c].pend : ~WaitOver(insts, i, callers[c].wstart)
  \/ \E e \in ExecIds :
       /\ execs[e].pc = "rm_wait"
       /\ ~WaitOver(insts, execs[e].target, execs[e].wstart)

\* d seconds pass, as in Advance, but time never stops for a coroutine that
\* sleeps in _wait_for_task: past MaxTime the clock moves on, by more than the
\* wait timeout at once, whenever a wait still has to time out
AdvanceLive(d) ==
  /\ UNCHANGED <<names, left>>
  /\ d >= TickPeriod
  /\ IF d > WaitTimeout THEN now >= MaxTime /\ TimeoutPending ELSE now < MaxTime
  /\ \A e \in ExecIds : execs[e].pc # "created"
  /\ now' = now + d
  /\ loops' = [l \in LoopIds |-> IF loops[l] = "sleep" THEN "ready" ELSE loops[l]]
  /\ UNCHANGED <<running, tasks, insts, execs, lock, lockq, callers, last>>

NextLive ==
  \/ \E d \in {TickPeriod, Jump} : AdvanceLive(d)
  \/ \E c \in Callers : Start(c)
  \/ \E c \in Callers : Stop(c)
  \/ \E c \in Callers, i \in InstIds : StopWait(c, i)
  \/ \E c \in Callers : StopReturn(c)
  \/ \E c \in Callers, n \in names, f \in Funcs,
        iv \in {None} \cup {Some(v) : v \in Intervals}, kw \in KwargsChoices :
        AddTask(c, n, f, iv, kw)
  \/ \E c \in Callers : AddLocked(c)
  \/ \E c \in Callers, n \in names : RemoveTask(c, n)
  \/ \E c \in Callers : RemoveLocked(c)
  \/ \E c \in Callers : RemoveWaitOver(c)
  \/ \E c \in Callers, n \in names, iv \in Intervals : UpdateInterval(c, n, iv)
  \/ \E c \in Callers : UpdateLocked(c)
  \/ \E c \in Callers, n \in names : RunTaskNow(c, n)
  \/ \E c \in Callers : GetStatus(c)
  \/ \E l \in LoopIds : LoopExit(l)
  \/ \E l \in LoopIds : LoopTick(l)
  \/ \E e \in ExecIds : ExecStart(e)
  \/ \E e \in ExecIds : ExecSucceed(e)
  \/ \E e \in ExecIds : ExecFail(e)
  \/ \E e \in ExecIds : ExecLocked(e)
  \/ \E e \in ExecIds : ExecWaitOver(e)

\* what the event loop guarantees: time passes, a created task gets its first
\* step, a coroutine that can leave a sleep or take the lock does so.  The
\* work itself may run for ever: ExecSucceed and ExecFail are not forced.
FairLive ==
  /\ WF_vars(\E d \in {TickPeriod, Jump} : AdvanceLive(d))
  /\ \A e \in ExecIds :
       WF_vars(ExecStart(e)) /\ WF_vars(ExecLocked(e)) /\ WF_vars(ExecWaitOver(e))
  /\ \A c \in Callers :
       /\ WF_vars(AddLocked(c)) /\ WF_vars(RemoveLocked(c))
       /\ WF_vars(UpdateLocked(c)) /\ WF_vars(RemoveWaitOver(c))
       /\ WF_vars(StopReturn(c))
       /\ \A i \in InstIds : WF_vars(StopWait(c, i))

InitLive == InitWith(OneName, MaxCallsLive)

SpecLive == InitLive /\ [][NextLive]_vars /\ FairLive

\* the interval values a caller may pass, zero and negative ones included
AnyIntervals == {-1, 0, 1}

\* the registration calls alone, with every interval value a caller may pass
NextRegistry ==
  \/ \E c \in Callers, n \in names, f \in Funcs,
        iv \in {None} \cup {Some(v) : v \in AnyIntervals}, kw \in KwargsChoices :
        AddTask(c, n, f, iv, kw)
  \/ \E c \in Callers, n \in names : RemoveTask(c, n)
  \/ \E c \in Callers, n \in names, iv \in AnyIntervals : UpdateInterval(c, n, iv)

SpecRegistry == InitTwo /\ [][NextRegistry]_vars

(* ============================== claims ================================ *)

\* C1: no self-overlap -- for every task, at most one execution of its work
\* is in progress at any instant, under every interleaving of ticks and calls.
C1_NoSelfOverlap ==
  \A i \in InstIds :
    Cardinality({e \in ExecIds : execs[e].inst = i /\ execs[e].pc = "working"}) <= 1

\* the failure of the execution in slot e is the one that reaches max_errors:
\* it is already in its remove_task call, or its except block is about to count
ReachesMaxErrors(e) ==
  LET t == insts[execs[e].inst]
  IN \/ execs[e].pc \in {"rm_lock", "rm_wait"}
     \/ t.error_count + 1 >= t.max_errors

\* the coroutine of slot e ends in this step, and not by a success
FailedEnd(e) ==
  /\ execs[e].pc # "free"
  /\ execs'[e].pc = "free"
  /\ ~ExecSucceed(e)

\* C2: when the execution that brings a task's consecutive failures to
\* max_errors has finished, the task's name is in neither the registry nor
\* the mapping of get_status().
C2_AbsentAfterMaxErrors ==
  [][\A e \in ExecIds :
       (FailedEnd(e) /\ ReachesMaxErrors(e))
       => /\ tasks'[insts[execs[e].inst].name] = 0
          /\ insts[execs[e].inst].name \notin DOMAIN get_status']_vars

\* C2 witness: a third failure has disabled task x and x is gone
C2_Witness ==
  /\ last = Event("disable", "x", "ok")
  /\ tasks["x"] = 0
  /\ "x" \notin DOMAIN get_status

\* C3: a task registered with max_errors=2 whose work always raises is out of
\* the registry once its second failing execution has finished.
C3_RemovedAfterTwoFailures ==
  \A n \in Registered :
    LET t == insts[tasks[n]]
    IN (<<"max_errors", 2>> \in t.kwargs /\ t.error_count >= 2) => t.is_running

\* the object in slot i is a ScheduledTask before and after the step
Lives(i) == insts[i].name # NoName /\ insts'[i].name # NoName

\* the step is an execution of the object in slot i returning normally
SucceedsOn(i) == \E e \in ExecIds : execs[e].inst = i /\ ExecSucceed(e)

\* the step is an execution of the object in slot i raising
FailsOn(i) ==
  \E e \in ExecIds :
    /\ execs[e].inst = i
    /\ \/ ExecFail(e)
       \/ ExecStart(e) /\ CallRaisesAtOnce(insts[i])

\* C4: a task's error_count goes up by exactly 1 when an execution of it
\* fails, goes to 0 when an execution of it succeeds, and no other step
\* changes it.
C4_ErrorCountSteps ==
  [][\A i \in InstIds :
       Lives(i) =>
         /\ SucceedsOn(i) => insts'[i].error_count = 0
         /\ FailsOn(i) => insts'[i].error_count = insts[i].error_count + 1
         /\ ~SucceedsOn(i) /\ ~FailsOn(i)
              => insts'[i].error_count = insts[i].error_count]_vars

\* C4 witness: two failures in a row have been counted on a registered task
C4_Witness ==
  \E n \in Registered :
    /\ insts[tasks[n]].error_count = 2
    /\ ~insts[tasks[n]].is_running
    /\ insts[tasks[n]].last_run # None

\* the step is add_task(n, ...) of caller c running its body under the lock
AddRuns(c, n) ==
  \/ /\ LockFree
     /\ \E f \in Funcs, iv \in {None} \cup {Some(v) : v \in Intervals},
           kw \in KwargsChoices : AddTask(c, n, f, iv, kw)
  \/ callers[c].name = n /\ AddLocked(c)

\* C5: add_task with a name that is already registered fails with the
\* already-exists error and changes neither the registry nor any task.
C5_DuplicateAddFails ==
  [][\A c \in Callers, n \in names :
       (tasks[n] # 0 /\ AddRuns(c, n))
       => /\ last' = Event("add_task", n, "ValueError: already exists")
          /\ tasks' = tasks
          /\ insts' = insts]_vars

\* C5 witness: a duplicate add_task has just failed, both names registered
C5_Witness ==
  /\ last.op = "add_task"
  /\ last.res = "ValueError: already exists"
  /\ tasks[last.name] # 0
  /\ Registered = names

\* the step creates an execution of the object in slot i
Launched(i) == \E e \in ExecIds : execs[e].pc = "free" /\ execs'[e] = NewExec(i)

\* C6: a tick at time t launches a registered task that last started at T,
\* with interval N, if and only if it is not running and t - T >= N.
C6_LaunchIffDue ==
  [][\A l \in LoopIds, n \in names :
       (LoopTick(l) /\ tasks[n] # 0 /\ insts[tasks[n]].last_run # None)
       => (Launched(tasks[n])
             <=> /\ ~insts[tasks[n]].is_running
                 /\ now - insts[tasks[n]].last_run[1] >= insts[tasks[n]].interval)]_vars

\* C6 witness: a tick has launched a task exactly one interval after its
\* last start
C6_Witness ==
  /\ last.op = "tick"
  /\ \E e \in ExecIds :
       /\ execs[e].pc = "created"
       /\ insts[execs[e].inst].last_run # None
       /\ now - insts[execs[e].inst].last_run[1] = insts[execs[e].inst].interval

\* C7: stop() returns only when every execution that was in progress at the
\* call has finished or the wait for its task has timed out.
C7_StopWaitsForRunning ==
  [][\A c \in Callers :
       StopReturn(c)
       => \A e \in ExecIds :
            c \in execs[e].stops => execs[e].inst \in callers[c].tout]_vars

\* C8: run_task_now on a task that is running fails with the busy error and
\* leaves every field of every task as it was.
C8_RunNowBusy ==
  [][\A c \in Callers, n \in names :
       (RunTaskNow(c, n) /\ tasks[n] # 0 /\ insts[tasks[n]].is_running)
       => /\ last' = Event("run_task_now", n, "RuntimeError: already running")
          /\ insts' = insts
          /\ tasks' = tasks]_vars

\* C8 witness: run_task_now has just been refused on a running task
C8_Witness ==
  /\ last.op = "run_task_now"
  /\ last.res = "RuntimeError: already running"
  /\ tasks[last.name] # 0
  /\ insts[tasks[last.name]].is_running
  /\ insts[tasks[last.name]].last_run # None

\* the step is remove_task(n) of caller c running its body under the lock
RemoveRuns(c, n) ==
  \/ LockFree /\ RemoveTask(c, n)
  \/ callers[c].name = n /\ RemoveLocked(c)

\* the step is update_interval(n, ...) of caller c running its body
UpdateRuns(c, n) ==
  \/ LockFree /\ \E iv \in Intervals : UpdateInterval(c, n, iv)
  \/ callers[c].name = n /\ UpdateLocked(c)

\* C9: remove_task, update_interval and run_task_now on a name that is not
\* registered fail with the not-found error and change nothing.
C9_AbsentNameFails ==
  [][\A c \in Callers, n \in names :
       tasks[n] = 0 =>
         /\ RemoveRuns(c, n)
              => /\ last' = Event("remove_task", n, "ValueError: not found")
                 /\ tasks' = tasks /\ insts' = insts /\ running' = running
         /\ UpdateRuns(c, n)
              => /\ last' = Event("update_interval", n, "ValueError: not found")
                 /\ tasks' = tasks /\ insts' = insts /\ running' = running
         /\ RunTaskNow(c, n)
              => /\ last' = Event("run_task_now", n, "ValueError: not found")
                 /\ tasks' = tasks /\ insts' = insts /\ running' = running]_vars

\* C9 witness: remove_task has just failed on an absent name while the other
\* task is registered
C9_Witness ==
  /\ last.op = "remove_task"
  /\ last.res = "ValueError: not found"
  /\ tasks[last.name] = 0
  /\ Registered # {}

\* C10: after a successful run_task_now(name) the next tick launches the task.
C10_NextTickLaunches ==
  [][\A l \in LoopIds :
       (/\ LoopTick(l)
        /\ last.op = "run_task_now"
        /\ last.res = "ok"
        /\ tasks[last.name] # 0)
       => Launched(tasks[last.name])]_vars

\* C11: a poll tick launches every registered task whose last_run is unset,
\* whatever its interval.
C11_NeverRunLaunched ==
  [][\A l \in LoopIds, n \in names :
       (LoopTick(l) /\ tasks[n] # 0 /\ insts[tasks[n]].last_run = None)
       => Launched(tasks[n])]_vars

\* C11 witness: a tick has launched health_check, registered with its default
\* interval of 300 s and never run before
C11_Witness ==
  /\ last.op = "tick"
  /\ tasks["health_check"] # 0
  /\ insts[tasks["health_check"]].interval = 300
  /\ insts[tasks["health_check"]].last_run = None
  /\ \E e \in ExecIds :
       execs[e] = NewExec(tasks["health_check"])

\* the step invokes the work function of the execution in slot e
Invoked(e) == execs[e].pc = "created" /\ execs'[e].pc = "working"

\* C12: once a task's error_count has reached max_errors its work is never
\* invoked again.
C12_NoRunAfterMaxErrors ==
  [][\A e \in ExecIds :
       Invoked(e)
       => insts[execs[e].inst].error_count < insts[execs[e].inst].max_errors]_vars

\* C13: remove_task(name) on a running task keeps the registry entry while
\* it waits, and deletes it only once is_running is false or more than the
\* wait timeout has passed since the wait began.
C13_RemoveWaitsForRunning ==
  [][\A c \in Callers :
       /\ \A n \in names :
            (RemoveRuns(c, n) /\ tasks[n] # 0 /\ insts[tasks[n]].is_running)
            => tasks'[n] = tasks[n]
       /\ callers[c].pc = "rm_wait"
            => /\ tasks[callers[c].name] = callers[c].target
               /\ tasks'[callers[c].name] # callers[c].target
                    => \/ ~insts[callers[c].target].is_running
                       \/ now - callers[c].wstart > WaitTimeout]_vars

\* C13 witness: remove_task has deleted x after its wait timed out, while an
\* execution of the removed task is still in progress
C13_Witness ==
  /\ last = Event("remove_task", "x", "ok")
  /\ tasks["x"] = 0
  /\ now > WaitTimeout
  /\ \E e \in ExecIds :
       /\ execs[e].pc = "working"
       /\ insts[execs[e].inst].name = "x"
       /\ insts[execs[e].inst].is_running

\* C14: start() while the scheduler is running is a no-op: no poll loop is
\* created and the running flag, the registry and the tasks are unchanged.
C14_StartIdempotent ==
  [][\A c \in Callers :
       (Start(c) /\ running)
       => /\ loops' = loops
          /\ running' = running
          /\ tasks' = tasks
          /\ insts' = insts
          /\ execs' = execs]_vars

\* C14 witness: start() has just returned as a no-op with one poll loop alive
\* and a task registered
C14_Witness ==
  /\ last = Event("start", NoName, "noop")
  /\ running
  /\ Cardinality({l \in LoopIds : loops[l] # "none"}) = 1
  /\ Registered # {}

\* the step belongs to a failing execution in slot e: the work raises, or the
\* remove_task that disables the task goes on
FailureStep(e) ==
  \/ ExecFail(e)
  \/ ExecStart(e) /\ CallRaisesAtOnce(insts[execs[e].inst])
  \/ ExecLocked(e)
  \/ ExecWaitOver(e)

\* C15: a failing execution of task A changes no field and no registry
\* membership of any task with another name, and ends no poll loop.
C15_FailureIsolated ==
  [][\A e \in ExecIds :
       (execs[e].pc # "free" /\ FailureStep(e))
       => /\ loops' = loops
          /\ running' = running
          /\ \A m \in names \ {insts[execs[e].inst].name} : tasks'[m] = tasks[m]
          /\ \A j \in InstIds :
               insts[j].name \notin {NoName, insts[execs[e].inst].name}
               => insts'[j] = insts[j]]_vars

\* C15 witness: x has failed up to its removal while health_check is still
\* registered and a poll loop is alive
C15_Witness ==
  /\ last = Event("disable", "x", "ok")
  /\ tasks["x"] = 0
  /\ tasks["health_check"] # 0
  /\ running
  /\ \E l \in LoopIds : loops[l] # "none"

\* the step is update_interval(n, iv) of caller c running its body
UpdateRunsWith(c, n, iv) ==
  \/ LockFree /\ UpdateInterval(c, n, iv)
  \/ callers[c].name = n /\ callers[c].interval = Some(iv) /\ UpdateLocked(c)

\* C16: a successful update_interval(name, interval) sets that task's interval
\* and changes nothing else: no other field of the task, no execution, no
\* other task, no registry entry.
C16_UpdateOnlyInterval ==
  [][\A c \in Callers, n \in names, iv \in Intervals :
       (tasks[n] # 0 /\ UpdateRunsWith(c, n, iv))
       => /\ insts' = [insts EXCEPT ![tasks[n]].interval = iv]
          /\ tasks' = tasks
          /\ execs' = execs
          /\ last' = Event("update_interval", n, "ok")]_vars

\* C16 witness: update_interval has just succeeded on x while an execution of
\* x is in progress and health_check keeps its default interval
C16_Witness ==
  /\ last = Event("update_interval", "x", "ok")
  /\ tasks["x"] # 0
  /\ insts[tasks["x"]].interval = 1
  /\ insts[tasks["x"]].is_running
  /\ insts[tasks["x"]].last_run # None
  /\ \E e \in ExecIds : execs[e].inst = tasks["x"] /\ execs[e].pc = "working"
  /\ tasks["health_check"] # 0
  /\ insts[tasks["health_check"]].interval = 300

\* C17: the mapping get_status() returns has exactly the registered names as
\* keys, and each entry carries the task's last_run (or absent), is_running,
\* error_count and interval, with next_run = last_run + interval, or the
\* current time when the task never ran.
C17_StatusSnapshot ==
  /\ DOMAIN get_status = {n \in names : tasks[n] # 0}
  /\ \A n \in DOMAIN get_status :
       LET t == insts[tasks[n]]
           s == get_status[n]
       IN /\ s.is_running = t.is_running
          /\ s.error_count = t.error_count
          /\ s.interval = t.interval
          /\ t.last_run = None
               => s.last_run = None /\ s.next_run = IsoFormat(now)
          /\ t.last_run # None
               => /\ s.last_run = Some(IsoFormat(t.last_run[1]))
                  /\ s.next_run = IsoFormat(t.last_run[1] + t.interval)

\* C17 witness: get_status() has just been called with x started and
\* health_check registered but never run
C17_Witness ==
  /\ last.op = "get_status"
  /\ DOMAIN get_status = Names
  /\ get_status["x"].last_run # None
  /\ get_status["x"].next_run = IsoFormat(insts[tasks["x"]].last_run[1] + insts[tasks["x"]].interval)
  /\ get_status["health_check"].last_run = None
  /\ get_status["health_check"].next_run = IsoFormat(now)

\* the step is add_task(n, func, iv, ...) of caller c running its body; iv is
\* None when interval is omitted
AddRunsWith(c, n, iv) ==
  \/ /\ LockFree
     /\ \E f \in Funcs, kw \in KwargsChoices : AddTask(c, n, f, iv, kw)
  \/ callers[c].name = n /\ callers[c].interval = iv /\ AddLocked(c)

\* the interval the static default table gives for name n, 3600 outside it
TableInterval(n) ==
  CASE n = "knowledge_update"   -> 3600
    [] n = "metrics_cleanup"    -> 86400
    [] n = "system_backup"      -> 43200
    [] n = "health_check"       -> 300
    [] n = "error_notification" -> 1800
    [] OTHER                    -> 3600

\* C18: add_task with interval omitted registers the task with the interval
\* of the static default table for its name, 3600 for a name outside the
\* table; with interval given it registers exactly that interval.
C18_DefaultIntervals ==
  [][/\ \A n \in DOMAIN default_intervals \cup Names :
          DefaultInterval(n) = TableInterval(n)
     /\ \A c \in Callers, n \in names, iv \in {None} \cup {Some(v) : v \in Intervals} :
          (tasks[n] = 0 /\ AddRunsWith(c, n, iv))
          => /\ tasks'[n] # 0
             /\ insts'[tasks'[n]].interval =
                  IF iv = None THEN TableInterval(n) ELSE iv[1]]_vars

\* C18 witness: health_check has just been registered without an interval
\* and got 300; x, outside the table, was registered without one and got 3600
C18_Witness ==
  /\ last = Event("add_task", "health_check", "ok")
  /\ tasks["health_check"] # 0
  /\ insts[tasks["health_check"]].interval = 300
  /\ tasks["x"] # 0
  /\ insts[tasks["x"]].interval = 3600

\* C19: from the moment a tick launches an execution of a task until that
\* execution has finished, the task's is_running is true.
C19_MarkBeforeLaunch ==
  \A e \in ExecIds :
    execs[e].pc # "free" => insts[execs[e].inst].is_running

\* C20: at any time at most one poll loop is alive, for every sequence of
\* start() and stop() calls.
C20_SinglePollLoop ==
  Cardinality({l \in LoopIds : loops[l] # "none"}) <= 1

\* the step is one taken by the execution in slot e after its work has
\* returned or raised
CompletionStep(e) ==
  \/ ExecSucceed(e)
  \/ ExecFail(e)
  \/ ExecLocked(e)
  \/ ExecWaitOver(e)

\* C22: last_run is written when an execution starts, with the time of the
\* start, and no step of the completion of an execution changes it.
C22_LastRunAtStart ==
  [][\A e \in ExecIds :
       (execs[e].pc # "free" /\ Lives(execs[e].inst))
       => /\ ExecStart(e) => insts'[execs[e].inst].last_run = Some(now)
          /\ CompletionStep(e)
               => insts'[execs[e].inst].last_run = insts[execs[e].inst].last_run]_vars

\* C22 witness: an execution that started at second 0 has completed, by a
\* failure, at second 1, and last_run is still 0
C22_Witness ==
  /\ now = 1
  /\ \A e \in ExecIds : execs[e].pc = "free"
  /\ \E n \in Registered :
       /\ insts[tasks[n]].last_run = Some(0)
       /\ insts[tasks[n]].error_count = 1
       /\ ~insts[tasks[n]].is_running

\* the coroutines suspended inside a lock-protected section: a remove_task,
\* called from outside or by the auto-disable, polling in _wait_for_task
InSection ==
  {CProc(c) : c \in {d \in Callers : callers[d].pc = "rm_wait"}}
    \cup {EProc(e) : e \in {f \in ExecIds : execs[f].pc = "rm_wait"}}

\* the step changes the registry or the interval of a task
MutationStep ==
  \/ tasks' # tasks
  \/ \E i \in InstIds : Lives(i) /\ insts'[i].interval # insts[i].interval

\* C23: at most one of add_task, remove_task, update_interval and the
\* auto-disable removal is inside its lock-protected section, it is the holder
\* of the lock, and a mutation happens only when no other one is inside.
C23_MutationsExclusive ==
  [][/\ Cardinality(InSection) <= 1
     /\ InSection \subseteq {lock}
     /\ Cardinality(InSection') <= 1
     /\ InSection' \subseteq {lock'}
     /\ MutationStep => InSection' = {}]_vars

\* C23 witness: an auto-disable removal is inside its section, holding the
\* lock, and an update_interval call is queued behind it
C23_Witness ==
  /\ \E e \in ExecIds : execs[e].pc = "rm_wait" /\ lock = EProc(e)
  /\ \E c \in Callers : callers[c].pc = "upd_lock" /\ lockq = <<CProc(c)>>

\* C24: every registered task's interval is a positive integer, whatever
\* interval values add_task and update_interval are called with.
C24_IntervalPositive ==
  \A n \in Registered : insts[tasks[n]].interval > 0

\* C25: an execution counts as a failure only if its work was invoked and
\* raised, for asynchronous and for synchronous work, with or without
\* keyword arguments.
C25_FailureOnlyIfWorkRaises ==
  [][\A i \in InstIds :
       (Lives(i) /\ insts'[i].error_count > insts[i].error_count)
       => \E e \in ExecIds :
            /\ execs[e].inst = i
            /\ execs[e].pc = "working"
            /\ execs'[e].pc # "working"]_vars

\* C26: the removal made by the auto-disable does not depend on the bounded
\* wait timing out: whenever it polls is_running inside remove_task, the flag
\* is false or another execution of that task is there to clear it.
C26_DisableNeedsNoTimeout ==
  \A e \in ExecIds :
    execs[e].pc = "rm_wait"
    => \/ ~insts[execs[e].target].is_running
       \/ \E f \in ExecIds \ {e} :
            /\ execs[f].inst = execs[e].target
            /\ execs[f].pc \in {"created", "working"}

\* C27: work is invoked only for task instances that are in the registry
\* when the execution begins.
C27_StartOnlyRegistered ==
  [][\A e \in ExecIds :
       ExecStart(e)
       => tasks[insts[execs[e].inst].name] = execs[e].inst]_vars

\* C28: the auto-disable deletes no registry entry but the one of the task
\* instance whose execution failed.
C28_DisableOwnInstance ==
  [][\A e \in ExecIds, n \in names :
       (/\ execs[e].pc # "free"
        /\ FailureStep(e)
        /\ tasks[n] # 0
        /\ tasks'[n] = 0)
       => tasks[n] = execs[e].inst]_vars

\* C29: the remove_task call of the auto-disable never fails with the
\* not-found error.
C29_DisableFindsTask ==
  ~(last.op = "disable" /\ last.res = "ValueError: not found")

\* C30: after stop() has returned and until start() is called again, no
\* execution starts.
C30_NoStartWhileStopped ==
  [][\A e \in ExecIds :
       ExecStart(e)
       => \/ running
          \/ \E c \in Callers : callers[c].pc = "stop_wait"]_vars

\* the coroutine of slot e ends in this step
Ends(e) == execs[e].pc # "free" /\ execs'[e].pc = "free"

\* C21: every execution clears is_running when it ends, whether its work
\* returned, raised, or raised for the max_errors-th time; and an execution
\* whose work has raised for the max_errors-th time does end.
C21_RunningCleared ==
  /\ [][\A e \in ExecIds : Ends(e) => ~insts'[execs[e].inst].is_running]_vars
  /\ \A e \in ExecIds :
       (execs[e].pc \in {"rm_lock", "rm_wait"}) ~> (execs[e].pc = "free")

\* C21 witness: the execution that disabled x has ended after its wait timed
\* out, and nothing is marked running
C21_Witness ==
  /\ last = Event("disable", "x", "ok")
  /\ now > WaitTimeout
  /\ \A e \in ExecIds : execs[e].pc = "free"
  /\ \A i \in InstIds : ~insts[i].is_running

=============================================================================
